---- MODULE Spec2Model ----
(***************************************************************************)
(* Model of the orbidder bid adapter (modules/orbidderBidAdapter.js) and   *)
(* of the vidazoo shared utilities (libraries/vidazooUtils/bidderUtils.js).*)
(*                                                                         *)
(* JavaScript values are tagged records: undefined, null, numbers,         *)
(* strings and objects.  An exception is an outcome with threw = TRUE.     *)
(* The local storage is a map from storage keys to strings or null; each   *)
(* call into it may throw, which is an input of the call (rf: the read     *)
(* throws, wf: the write throws).                                          *)
(***************************************************************************)
EXTENDS Integers, Sequences, FiniteSets, TLC

VARIABLES now, store, last, hist, faulty, input, output

vars == <<now, store, last, hist, faulty, input, output>>

(***************************************************************************)
(* Bounds of the model.                                                    *)
(***************************************************************************)
MaxTime == 4
MaxCount == 3
MaxExpiry == 2
MaxFaultTime == 2
MaxRecords == 2
MaxFloor == 2
MaxResponses == 2

(***************************************************************************)
(* JavaScript values.                                                      *)
(***************************************************************************)
Undefined == [t |-> "undefined"]
Null == [t |-> "null"]
Num(n) == [t |-> "number", n |-> n]
Bool(b) == [t |-> "boolean", b |-> b]
\* A string that is no JSON text (a host name, an identifier, '').
Text(s) == [t |-> "string", text |-> s]
\* The template string `${key}_${now.toString()}`.
IdText(key, stamp) == [t |-> "string", key |-> key, stamp |-> stamp]
\* String(n): the decimal digits of a number; it is a JSON text.
NumText(n) == [t |-> "string", digits |-> n]
\* The object literal {value, created}.
StoredValue(value, created) == [t |-> "object", value |-> value, created |-> created]
\* JSON.stringify of an object: the text that encodes it.
JSONstringify(o) == [t |-> "string", json |-> o]

\* JavaScript truthiness.
Truthy(v) ==
  CASE v.t = "undefined" -> FALSE
    [] v.t = "null" -> FALSE
    [] v.t = "boolean" -> v.b
    [] v.t = "number" -> v.n # 0
    [] v.t = "string" -> v # Text("")
    [] OTHER -> TRUE

\* Property access o.f on a non-null value: undefined when o has no such property.
Get(o, f) == IF o.t = "object" /\ f \in DOMAIN o THEN o[f] ELSE Undefined

(***************************************************************************)
(* The storage collaborator.                                               *)
(***************************************************************************)
SESSION_ID_KEY == "webSessionId"
HOST_KEY == "ov_orbidder_host"
CACHE_KEY == "cacheOpt"
DealKeys == {"k1"}
UniqueKey(key) == "u_" \o key

StorageKeys == DealKeys \cup {UniqueKey(k) : k \in DealKeys}
                 \cup {SESSION_ID_KEY, HOST_KEY, CACHE_KEY}

\* storage.getDataFromLocalStorage(key): the stored string or null, or a throw.
getDataFromLocalStorage(st, key, rf) ==
  IF rf THEN [threw |-> TRUE, val |-> Undefined]
        ELSE [threw |-> FALSE, val |-> st[key]]

\* storage.setDataInLocalStorage(key, data): the new storage, or a throw.
setDataInLocalStorage(st, key, data, wf) ==
  IF wf THEN [threw |-> TRUE, store |-> st]
        ELSE [threw |-> FALSE, store |-> [st EXCEPT ![key] = data]]

\* tryParseJSON: JSON.parse(value), or value itself when that throws.
tryParseJSON(value) ==
  CASE value.t = "null" -> Null
    [] value.t = "string" /\ "json" \in DOMAIN value -> value.json
    [] value.t = "string" /\ "digits" \in DOMAIN value -> Num(value.digits)
    [] OTHER -> value

\* setStorageItem with the timestamp argument ignored: created is always Date.now().
setStorageItem_IgnoreTimestamp(st, key, value, timestamp, t, wf) ==
  LET data == JSONstringify(StoredValue(value, Num(t)))
      w == setDataInLocalStorage(st, key, data, wf)
  IN  [store |-> w.store, writes |-> 1]

\* setStorageItem(storage, key, value, timestamp): never throws.
\* Result: the storage after the call and the number of storage writes attempted.
setStorageItem(st, key, value, timestamp, t, wf) ==
  LET created == IF Truthy(timestamp) THEN timestamp ELSE Num(t)
      data == JSONstringify(StoredValue(value, created))
      w == setDataInLocalStorage(st, key, data, wf)
  IN  [store |-> w.store, writes |-> 1]

\* getStorageItem(storage, key): the parsed item; null when the read throws.
getStorageItem(st, key, rf) ==
  LET r == getDataFromLocalStorage(st, key, rf)
  IN  IF r.threw THEN Null ELSE tryParseJSON(r.val)

\* An outcome of a call: threw, the returned value, the storage afterwards and
\* the number of storage writes the call attempted.
Outcome(threw, ret, st, writes) ==
  [threw |-> threw, ret |-> ret, store |-> st, writes |-> writes]

\* getCacheOpt(storage, useKey): no try/catch, a throw of the storage propagates.
getCacheOpt(st, useKey, t, rf, wf) ==
  LET r == getDataFromLocalStorage(st, useKey, rf)
  IN  IF r.threw THEN Outcome(TRUE, Undefined, st, 0)
      ELSE IF ~Truthy(r.val)
           THEN LET data == NumText(t)
                    w == setDataInLocalStorage(st, useKey, data, wf)
                IN  IF w.threw THEN Outcome(TRUE, Undefined, st, 1)
                               ELSE Outcome(FALSE, data, w.store, 1)
           ELSE Outcome(FALSE, r.val, st, 0)

\* The test of getUniqueDealId, line 77: the stored identifier is to be replaced.
UniqueDealIdStale(data, t, expiry) ==
  \/ ~Truthy(data)
  \/ ~Truthy(Get(data, "value"))
  \/ t - Get(data, "created").n > expiry

\* getUniqueDealId that writes the identifier back on every call, refreshing created.
getUniqueDealId_Rewrite(st, key, expiry, t, rf, wf) ==
  LET storageKey == "u_" \o key
      r == getDataFromLocalStorage(st, storageKey, rf)
      data == IF r.threw THEN Null ELSE tryParseJSON(r.val)
      stale == \/ ~Truthy(data)
               \/ ~Truthy(Get(data, "value"))
               \/ t - Get(data, "created").n > expiry
      uniqueId == IF stale THEN IdText(key, t) ELSE Get(data, "value")
      w == setDataInLocalStorage(st, storageKey,
             JSONstringify(StoredValue(uniqueId, Num(t))), wf)
  IN  [threw |-> FALSE, ret |-> uniqueId, store |-> w.store, writes |-> 1]

\* getUniqueDealId(storage, key, expiry)
getUniqueDealId(st, key, expiry, t, rf, wf) ==
  LET storageKey == UniqueKey(key)
      data == getStorageItem(st, storageKey, rf)
  IN  IF UniqueDealIdStale(data, t, expiry)
      THEN LET uniqueId == IdText(key, t)
               s == setStorageItem(st, storageKey, uniqueId, Undefined, t, wf)
           IN  Outcome(FALSE, uniqueId, s.store, s.writes)
      ELSE Outcome(FALSE, Get(data, "value"), st, 0)

\* The test of getNextDealId with <= in place of <.
NextDealIdLive_Inclusive(data, t, expiry) ==
  /\ Truthy(data)
  /\ Truthy(Get(data, "value"))
  /\ t - Get(data, "created").n <= expiry

\* The test of getNextDealId, line 93: the stored counter is carried on.
NextDealIdLive(data, t, expiry) ==
  /\ Truthy(data)
  /\ Truthy(Get(data, "value"))
  /\ t - Get(data, "created").n < expiry

\* getNextDealId that never looks at the age of the stored counter.
getNextDealId_NoExpiry(st, key, expiry, t, rf, wf) ==
  LET r == getDataFromLocalStorage(st, key, rf)
      data == IF r.threw THEN Null ELSE tryParseJSON(r.val)
      live == Truthy(data) /\ Truthy(Get(data, "value"))
      nextValue == Num((IF live THEN Get(data, "value").n ELSE 0) + 1)
      created == IF live THEN Get(data, "created") ELSE Num(t)
      w == setDataInLocalStorage(st, key,
             JSONstringify(StoredValue(nextValue, created)), wf)
  IN  [threw |-> FALSE, ret |-> nextValue, store |-> w.store, writes |-> 1]

\* getNextDealId(storage, key, expiry).  Its catch (return 0) is reached only by
\* a throw inside the try block; getStorageItem and setStorageItem catch every
\* throw of the storage themselves, so none reaches it.
getNextDealId(st, key, expiry, t, rf, wf) ==
  LET data == getStorageItem(st, key, rf)
      live == NextDealIdLive(data, t, expiry)
      currentValue == IF live THEN Get(data, "value") ELSE Num(0)
      timestamp == IF live THEN Get(data, "created") ELSE Undefined
      nextValue == Num(currentValue.n + 1)
      s == setStorageItem(st, key, nextValue, timestamp, t, wf)
  IN  Outcome(FALSE, nextValue, s.store, s.writes)

\* getVidazooSessionId(storage): getStorageItem(storage, SESSION_ID_KEY) || ''
getVidazooSessionId(st, rf) ==
  LET item == getStorageItem(st, SESSION_ID_KEY, rf)
  IN  Outcome(FALSE, IF Truthy(item) THEN item ELSE Text(""), st, 0)

\* spec.hostname and spec.getHostname() of the orbidder adapter.
hostname == Text("https://orbidder.otto.de")

getHostname(st, rf) ==
  LET r == getDataFromLocalStorage(st, HOST_KEY, rf)
  IN  IF r.threw THEN Outcome(FALSE, hostname, st, 0)
      ELSE Outcome(FALSE, IF Truthy(r.val) THEN r.val ELSE hostname, st, 0)

(***************************************************************************)
(* The storage state machine: the host calls the storage helpers in any    *)
(* order while the clock (Date.now()) advances.                            *)
(*   faulty : the storage may throw (FALSE: a working storage)             *)
(*   last   : the most recent call, its inputs, what it found and returned *)
(*   hist   : for a working storage, per deal key, the previous return     *)
(*            value of getNextDealId and the time of its last reset, the   *)
(*            previous identifier of getUniqueDealId and the time it was   *)
(*            generated                                                    *)
(***************************************************************************)
Expiries == 0..MaxExpiry
Faults == IF faulty THEN BOOLEAN ELSE {FALSE}
UniqueKeys == {UniqueKey(d) : d \in DealKeys}

NoCall ==
  [op |-> "none", key |-> "", expiry |-> 0, at |-> 0, rf |-> FALSE, wf |-> FALSE,
   pre |-> Null, threw |-> FALSE, ret |-> Undefined, writes |-> 0,
   prevRet |-> 0, prevResetAt |-> 0, prevUid |-> Undefined, prevUidAt |-> 0]

Call(op, key, expiry, rf, wf, r) ==
  [op |-> op, key |-> key, expiry |-> expiry, at |-> now, rf |-> rf, wf |-> wf,
   pre |-> store[key], threw |-> r.threw, ret |-> r.ret, writes |-> r.writes,
   prevRet |-> IF key \in DealKeys THEN hist.ret[key] ELSE 0,
   prevResetAt |-> IF key \in DealKeys THEN hist.resetAt[key] ELSE 0,
   prevUid |-> IF key \in UniqueKeys THEN hist.uid[key] ELSE Undefined,
   prevUidAt |-> IF key \in UniqueKeys THEN hist.uidAt[key] ELSE 0]

NoHistory ==
  [ret |-> [k \in DealKeys |-> 0], resetAt |-> [k \in DealKeys |-> 0],
   uid |-> [k \in UniqueKeys |-> Undefined], uidAt |-> [k \in UniqueKeys |-> 0]]

EmptyStorage == [k \in StorageKeys |-> Null]

\* A working storage that starts empty.
Init ==
  /\ now = 1
  /\ store = EmptyStorage
  /\ last = NoCall
  /\ hist = NoHistory
  /\ faulty = FALSE
  /\ input = Null
  /\ output = Null

\* What the storage may hold under the session key and the host key when the
\* page loads: nothing, a stored item, or a text that is no JSON.
InitialSessions ==
  {Null, JSONstringify(StoredValue(Text("wsid_1"), Num(1))), Text("wsid_raw")}
InitialHosts == {Null, Text("https://test.host")}

\* A storage that may throw.
InitFaulty ==
  /\ now = 1
  /\ \E s \in InitialSessions, h \in InitialHosts :
       store = [EmptyStorage EXCEPT ![SESSION_ID_KEY] = s, ![HOST_KEY] = h]
  /\ last = NoCall
  /\ hist = NoHistory
  /\ faulty = TRUE
  /\ input = Null
  /\ output = Null

\* Date.now() advances.
Tick ==
  /\ now < (IF faulty THEN MaxFaultTime ELSE MaxTime)
  /\ now' = now + 1
  /\ UNCHANGED <<store, last, hist, faulty, input, output>>

CallGetNextDealId ==
  \E key \in DealKeys, expiry \in Expiries, rf \in Faults, wf \in Faults :
    LET r == getNextDealId(store, key, expiry, now, rf, wf)
    IN  /\ r.ret.n <= MaxCount
        /\ store' = r.store
        /\ last' = Call("getNextDealId", key, expiry, rf, wf, r)
        /\ hist' = IF faulty THEN hist
                   ELSE [hist EXCEPT !.ret[key] = r.ret.n,
                                     !.resetAt[key] = IF r.ret.n = 1 THEN now ELSE @]
        /\ UNCHANGED <<now, faulty, input, output>>

CallGetUniqueDealId ==
  \E key \in DealKeys, expiry \in Expiries, rf \in Faults, wf \in Faults :
    LET r == getUniqueDealId(store, key, expiry, now, rf, wf)
        sk == UniqueKey(key)
    IN  /\ store' = r.store
        /\ last' = Call("getUniqueDealId", sk, expiry, rf, wf, r)
        /\ hist' = IF faulty THEN hist
                   ELSE [hist EXCEPT !.uid[sk] = r.ret,
                                     !.uidAt[sk] = IF r.ret = hist.uid[sk] THEN @ ELSE now]
        /\ UNCHANGED <<now, faulty, input, output>>

CallGetCacheOpt ==
  \E rf \in Faults, wf \in Faults :
    LET r == getCacheOpt(store, CACHE_KEY, now, rf, wf)
    IN  /\ store' = r.store
        /\ last' = Call("getCacheOpt", CACHE_KEY, 0, rf, wf, r)
        /\ UNCHANGED <<now, hist, faulty, input, output>>

CallGetStorageItem ==
  \E key \in StorageKeys, rf \in Faults :
    LET r == Outcome(FALSE, getStorageItem(store, key, rf), store, 0)
    IN  /\ last' = Call("getStorageItem", key, 0, rf, FALSE, r)
        /\ UNCHANGED <<now, store, hist, faulty, input, output>>

\* The adapter keeps its session identifier with setStorageItem.
CallSetStorageItem ==
  \E wf \in Faults :
    LET s == setStorageItem(store, SESSION_ID_KEY, Text("wsid_2"), Undefined, now, wf)
        r == Outcome(FALSE, Undefined, s.store, s.writes)
    IN  /\ store' = r.store
        /\ last' = Call("setStorageItem", SESSION_ID_KEY, 0, FALSE, wf, r)
        /\ UNCHANGED <<now, hist, faulty, input, output>>

CallGetVidazooSessionId ==
  \E rf \in Faults :
    LET r == getVidazooSessionId(store, rf)
    IN  /\ last' = Call("getVidazooSessionId", SESSION_ID_KEY, 0, rf, FALSE, r)
        /\ UNCHANGED <<now, store, hist, faulty, input, output>>

CallGetHostname ==
  \E rf \in Faults :
    LET r == getHostname(store, rf)
    IN  /\ last' = Call("getHostname", HOST_KEY, 0, rf, FALSE, r)
        /\ UNCHANGED <<now, store, hist, faulty, input, output>>

\* The deal identifiers on a working storage.
Next ==
  \/ Tick
  \/ CallGetNextDealId
  \/ CallGetUniqueDealId

Spec == Init /\ [][Next]_vars

\* Every storage operation on a storage that may throw.
NextFaulty ==
  \/ Tick
  \/ CallGetNextDealId
  \/ CallGetUniqueDealId
  \/ CallGetCacheOpt
  \/ CallGetStorageItem
  \/ CallSetStorageItem
  \/ CallGetVidazooSessionId
  \/ CallGetHostname

SpecFaulty == InitFaulty /\ [][NextFaulty]_vars

(***************************************************************************)
(* Deal identifiers on a working storage (Spec).                           *)
(***************************************************************************)
IsNextCall == last.op = "getNextDealId"
IsUniqueCall == last.op = "getUniqueDealId"
\* The item the last call found in the storage, and the one it left there.
Found == tryParseJSON(last.pre)
Left == tryParseJSON(store[last.key])
\* now - created, for the item the last call found.
Age == last.at - Found.created.n

\* C1: on a working storage that starts empty, the first getNextDealId returns 1;
\* a further call made inside the expiry window of the counter (less than expiry
\* after its last reset) returns the previous return value plus 1; a call made
\* once the window has expired returns 1 again.
C1_NextDealIdIncrements ==
  IsNextCall =>
    /\ last.prevRet = 0 => last.ret = Num(1)
    /\ (last.prevRet > 0 /\ last.at - last.prevResetAt < last.expiry)
         => last.ret = Num(last.prevRet + 1)
    /\ (last.prevRet > 0 /\ last.at - last.prevResetAt >= last.expiry)
         => last.ret = Num(1)

\* C1 witness: after the counter reached 2, a call made after expiry returned 1.
C1_Witness ==
  /\ IsNextCall
  /\ last.prevRet = 2
  /\ last.expiry > 0
  /\ last.at - last.prevResetAt > last.expiry
  /\ last.ret = Num(1)

\* C2: a getUniqueDealId call made within the expiry window of the identifier
\* returns the identical string and performs no storage write (the stored item
\* is unchanged); an identifier is generated and written only when the stored one
\* is absent or expired.
C2_UniqueDealIdStable ==
  IsUniqueCall =>
    /\ (last.prevUid # Undefined /\ last.at - last.prevUidAt <= last.expiry)
         => /\ last.ret = last.prevUid
            /\ last.writes = 0
            /\ store[last.key] = last.pre
    /\ (last.writes > 0 \/ last.ret # last.prevUid \/ store[last.key] # last.pre)
         => \/ last.pre = Null
            \/ last.at - last.prevUidAt > last.expiry

\* C2 witness: a call at a later time than the identifier was generated, inside
\* the window, returned the stored identifier.
C2_Witness ==
  /\ IsUniqueCall
  /\ last.pre # Null
  /\ last.at > last.prevUidAt
  /\ last.at - last.prevUidAt <= last.expiry
  /\ last.ret = last.prevUid
  /\ last.writes = 0

\* What "replaced" and "reused" mean for the two functions.
Replaced ==
  /\ Left.created = Num(last.at)
  /\ IF IsNextCall THEN last.ret = Num(1) /\ Left.value = Num(1)
                   ELSE /\ \E k \in DealKeys :
                             UniqueKey(k) = last.key /\ last.ret = IdText(k, last.at)
                        /\ Left.value = last.ret
Reused ==
  IF IsNextCall
    THEN /\ last.ret = Num(Found.value.n + 1)
         /\ Left = StoredValue(last.ret, Found.created)
    ELSE /\ last.ret = Found.value
         /\ store[last.key] = last.pre

\* C9 as stated: in both functions a stored pair is replaced exactly when
\* now - created exceeds the expiry, and reused when now - created <= expiry.
C9_AsStated ==
  ((IsNextCall \/ IsUniqueCall) /\ last.pre # Null) =>
    /\ Age > last.expiry => Replaced
    /\ Age <= last.expiry => Reused

\* C9 amended: getUniqueDealId replaces the stored pair exactly when
\* now - created > expiry (at now - created = expiry it is reused); getNextDealId
\* resets exactly when now - created >= expiry (at now - created = expiry the
\* counter resets), and carries the counter on only when now - created < expiry.
C9_ExpiryBoundary ==
  /\ (IsUniqueCall /\ last.pre # Null) =>
       /\ Age > last.expiry => Replaced
       /\ Age <= last.expiry => Reused
  /\ (IsNextCall /\ last.pre # Null) =>
       /\ Age >= last.expiry => Replaced
       /\ Age < last.expiry => Reused

\* C9 witness: getNextDealId called exactly expiry after the counter was created.
C9_Witness ==
  /\ IsNextCall
  /\ last.pre # Null
  /\ last.expiry > 0
  /\ Age = last.expiry
  /\ Found.value.n >= 2
  /\ last.ret = Num(1)

\* C10: the stored created timestamp is the time of the most recent call that
\* reset the counter; a call that finds an unexpired counter stores the
\* incremented value with the created timestamp it found; the timestamp changes
\* only in a call that resets the counter.
C10_CreatedIsResetTime ==
  /\ \A k \in DealKeys :
       store[k] # Null => tryParseJSON(store[k]).created = Num(hist.resetAt[k])
  /\ (IsNextCall /\ last.pre # Null) =>
       /\ last.ret # Num(1) => Left = StoredValue(last.ret, Found.created)
       /\ Left.created # Found.created => last.ret = Num(1)

\* C10 witness: the counter was incremented to 3 at a later time than its reset
\* and the stored timestamp is still the reset time.
C10_Witness ==
  /\ IsNextCall
  /\ last.ret = Num(3)
  /\ last.at > hist.resetAt[last.key]
  /\ Left.created = Num(hist.resetAt[last.key])

(***************************************************************************)
(* Storage failures (SpecFaulty).                                          *)
(***************************************************************************)
\* C3 as stated: getNextDealId returns 0 whenever the storage read or the storage
\* write of the call throws.
C3_AsStated ==
  (IsNextCall /\ (last.rf \/ last.wf)) => last.ret = Num(0)

\* C4 as stated: no operation propagates a storage failure; a failed write leaves
\* the storage as it was.
C4_AsStated ==
  (last.op # "none" /\ (last.rf \/ last.wf)) =>
    /\ ~last.threw
    /\ last.wf => store[last.key] = last.pre

(***************************************************************************)
(* The pure functions.  Each has a specification whose Init draws the      *)
(* input from a bounded set and whose one action applies the function:     *)
(* output is Null until then.                                              *)
(***************************************************************************)
Idle == /\ now = 1
        /\ store = EmptyStorage
        /\ last = NoCall
        /\ hist = NoHistory
        /\ faulty = FALSE

Array(items) == [t |-> "array", items |-> items]
Returned(v) == [threw |-> FALSE, ret |-> v]
Thrown == [threw |-> TRUE, ret |-> Undefined]
Done == output # Null

\* typeof v
TypeOf(v) ==
  CASE v.t = "null" -> "object"
    [] v.t = "array" -> "object"
    [] OTHER -> v.t

(***************************************************************************)
(* orbidder isBidRequestValid                                              *)
(***************************************************************************)
Sizes == {Undefined, Array(<<>>), Array(<<"300x250">>)}
BidIds == {Undefined, Text(""), Text("1")}
ParamIds == {Undefined, Text(""), Text("a"), Num(123)}
KeyValues == {Undefined, Null, Text("kv"), [t |-> "object"]}
Params ==
  {Undefined} \cup
  {[t |-> "object", accountId |-> a, placementId |-> p, keyValues |-> k] :
     a \in ParamIds, p \in ParamIds, k \in KeyValues}
Bids == {[t |-> "object", sizes |-> z, bidId |-> b, params |-> p] :
           z \in Sizes, b \in BidIds, p \in Params}

\* isBidRequestValid with the typeof test on accountId left out.
isBidRequestValid_NoTypeof(bid) ==
  /\ Truthy(bid.sizes)
  /\ Truthy(bid.bidId)
  /\ Truthy(bid.params)
  /\ Truthy(bid.params.accountId)
  /\ Truthy(bid.params.placementId) /\ TypeOf(bid.params.placementId) = "string"
  /\ (TypeOf(bid.params.keyValues) = "undefined" \/ TypeOf(bid.params.keyValues) = "object")

\* spec.isBidRequestValid(bid)
isBidRequestValid(bid) ==
  /\ Truthy(bid.sizes)
  /\ Truthy(bid.bidId)
  /\ Truthy(bid.params)
  /\ Truthy(bid.params.accountId) /\ TypeOf(bid.params.accountId) = "string"
  /\ Truthy(bid.params.placementId) /\ TypeOf(bid.params.placementId) = "string"
  /\ (TypeOf(bid.params.keyValues) = "undefined" \/ TypeOf(bid.params.keyValues) = "object")

InitValid == Idle /\ input \in Bids /\ output = Null

ApplyIsBidRequestValid ==
  /\ output = Null
  /\ input \in Bids
  /\ output' = Returned(Bool(isBidRequestValid(input)))
  /\ UNCHANGED <<now, store, last, hist, faulty, input>>

SpecValid == InitValid /\ [][ApplyIsBidRequestValid]_vars

\* The conditions of the claim, read off the bid.
HasSizes == input.sizes # Undefined
NonEmptySizes == HasSizes /\ Len(input.sizes.items) > 0
HasBidId == input.bidId \notin {Undefined, Text("")}
NonEmptyString(v) == v.t = "string" /\ v # Text("")
HasMandatedParams ==
  /\ input.params # Undefined
  /\ NonEmptyString(input.params.accountId)
  /\ NonEmptyString(input.params.placementId)

\* C7 as stated: true only if the sizes are non-empty, a bid id is present and
\* both mandated parameters are non-empty strings; false whenever one of these
\* fails.
C7_AsStated ==
  Done => (output.ret = Bool(TRUE) => NonEmptySizes /\ HasBidId /\ HasMandatedParams)

\* C7 amended: true only if the sizes are present (an empty size list counts as
\* present), a bid id is present and both mandated parameters are non-empty
\* strings; false whenever the sizes or the bid id are absent, a mandated
\* parameter is absent or empty, or it is not a string.
C7_ValidOnlyIfPresent ==
  Done => (output.ret = Bool(TRUE) => HasSizes /\ HasBidId /\ HasMandatedParams)

\* C7 witness: a bid with an empty size list and everything else in place is
\* accepted.
C7_Witness ==
  /\ Done
  /\ input.sizes = Array(<<>>)
  /\ HasBidId /\ HasMandatedParams
  /\ output.ret = Bool(TRUE)

(***************************************************************************)
(* Floor resolution: orbidder getBidFloor and the floor part of the        *)
(* vidazoo buildRequestData.                                               *)
(***************************************************************************)
\* What a floor can be: a number, something that is no number, or undefined.
Floors == {Num(n) : n \in 0..MaxFloor} \cup {Text("abc"), Undefined}
\* What bid.getFloor may return: nothing, an empty object, or {currency, floor}.
FloorInfos ==
  {Undefined, [t |-> "object"]} \cup
  {[t |-> "object", currency |-> Text(c), floor |-> f] :
     c \in {"EUR", "USD", "GBP"}, f \in Floors}
StaticFloors == {Undefined} \cup {Num(n) : n \in 1..MaxFloor}
\* A bid: whether bid.getFloor is a function, what it returns, and the floor
\* configured in params (bidfloor for orbidder, bidFloor for vidazoo).
FloorBids ==
  {[adapter |-> a, isFn |-> g, floorInfo |-> i, static |-> f] :
     a \in {"orbidder", "vidazoo"}, g \in BOOLEAN, i \in FloorInfos, f \in StaticFloors}

isPlainObject(v) == v.t = "object"
\* isNaN(v): Number(v) is NaN.
isNaN(v) == ~(v.t = "number" \/ v.t = "null" \/ v.t = "boolean")

\* A floor resolution: the resolved floor and the currency getFloor was asked for
\* ("" when it was not called).
Resolved(floor, asked) == [threw |-> FALSE, ret |-> floor, asked |-> asked]
FloorThrown(asked) == [threw |-> TRUE, ret |-> Undefined, asked |-> asked]

\* getBidFloor(bid) of the orbidder adapter.
getBidFloor(bid) ==
  IF ~bid.isFn THEN Resolved(bid.static, "")
  ELSE LET floor == bid.floorInfo
       IN  IF /\ isPlainObject(floor)
              /\ ~isNaN(Get(floor, "floor"))
              /\ Get(floor, "currency") = Text("EUR")
           THEN Resolved(Get(floor, "floor"), "EUR")
           ELSE Resolved(Undefined, "EUR")

\* buildRequestData, lines 222 and 235-245: let {bidFloor} = params, then the
\* getFloor branch.  floorInfo.currency throws when floorInfo is undefined.
buildRequestData_bidFloor(bid) ==
  IF ~bid.isFn THEN Resolved(bid.static, "")
  ELSE LET floorInfo == bid.floorInfo
       IN  IF floorInfo.t = "undefined" THEN FloorThrown("USD")
           ELSE IF Get(floorInfo, "currency") = Text("USD")
                THEN Resolved(Get(floorInfo, "floor"), "USD")
                ELSE Resolved(bid.static, "USD")

ResolveFloor(bid) ==
  IF bid.adapter = "orbidder" THEN getBidFloor(bid) ELSE buildRequestData_bidFloor(bid)

InitFloor == Idle /\ input \in FloorBids /\ output = Null

ApplyResolveFloor ==
  /\ output = Null
  /\ input \in FloorBids
  /\ output' = ResolveFloor(input)
  /\ UNCHANGED <<now, store, last, hist, faulty, input>>

SpecFloor == InitFloor /\ [][ApplyResolveFloor]_vars

SettlementCurrency == IF input.adapter = "orbidder" THEN "EUR" ELSE "USD"
\* The floor getFloor returned can be used: an object in the settlement currency
\* whose floor is a number.
FloorUsable ==
  /\ input.isFn
  /\ isPlainObject(input.floorInfo)
  /\ Get(input.floorInfo, "currency") = Text(SettlementCurrency)
  /\ Get(input.floorInfo, "floor").t = "number"

\* C6 as stated: getFloor, when it is a function, is asked for the settlement
\* currency and its floor is used only if it came back in that currency; in every
\* other case the resolved floor is the statically configured one; no error is
\* raised.
C6_AsStated ==
  Done =>
    /\ ~output.threw
    /\ input.isFn => output.asked = SettlementCurrency
    /\ FloorUsable => output.ret = input.floorInfo.floor
    /\ ~FloorUsable => output.ret = input.static

(***************************************************************************)
(* orbidder interpretResponse                                              *)
(***************************************************************************)
BANNER == "banner"
NATIVE == "native"
BaseKeys == {"requestId", "cpm", "ttl", "creativeId", "netRevenue", "currency"}
BannerKeys == {"width", "height", "ad"}

\* A response record: its mediaType, the names of its own properties among the
\* required ones, its native property (absent, an object without or with
\* impressionTrackers) and its advertiserDomains (absent, or an array).
KeySets == {BaseKeys \cup BannerKeys, BaseKeys \cup {"width", "height"},
            BaseKeys, BaseKeys \ {"cpm"}}
Natives == {Undefined, [t |-> "object"], [t |-> "object", impressionTrackers |-> Array(<<>>)]}
BidResponses ==
  {[t |-> "object", mediaType |-> m, keys |-> ks, native |-> n,
    advertiserDomains |-> d] :
     m \in {BANNER, NATIVE, "video"}, ks \in KeySets, n \in Natives,
     d \in {Undefined, Array(<<"otto.de">>)}}

SeqsUpTo(S, n) == UNION {[1..k -> S] : k \in 0..n}
\* serverResponse.body: nothing, or an array of records.
Bodies == {Undefined} \cup {Array(b) : b \in SeqsUpTo(BidResponses, MaxRecords)}

hasOwnProperty(o, key) ==
  IF key \in BaseKeys \cup BannerKeys THEN key \in o.keys
  ELSE key \in DOMAIN o /\ o[key] # Undefined

\* isBidResponseValid(bidResponse): true, false, or a TypeError when a native
\* record has no native property (bidResponse.native.hasOwnProperty).
isBidResponseValid(bidResponse) ==
  LET banner == bidResponse.mediaType = BANNER
      requiredKeys == IF banner THEN BaseKeys \cup BannerKeys ELSE BaseKeys
  IN  CASE bidResponse.mediaType = BANNER ->
             Returned(\A key \in requiredKeys : hasOwnProperty(bidResponse, key))
        [] bidResponse.mediaType = NATIVE ->
             IF bidResponse.native = Undefined THEN Thrown
             ELSE IF ~("impressionTrackers" \in DOMAIN bidResponse.native)
                  THEN Returned(FALSE)
                  ELSE Returned(\A key \in requiredKeys : hasOwnProperty(bidResponse, key))
        [] OTHER -> Returned(FALSE)

\* The record as it is pushed: meta is set when advertiserDomains is an array.
Pushed(bidResponse) ==
  IF bidResponse.advertiserDomains.t = "array"
    THEN bidResponse @@ [meta |-> [advertiserDomains |-> bidResponse.advertiserDomains]]
    ELSE bidResponse

\* The forEach of interpretResponse over records i..Len(records), with
\* bidResponses the array pushed so far; a throw of the callback ends the call.
RECURSIVE forEachBidResponse(_, _, _)
forEachBidResponse(records, i, bidResponses) ==
  IF i > Len(records) THEN Returned(bidResponses)
  ELSE LET v == isBidResponseValid(records[i])
       IN  IF v.threw THEN Thrown
           ELSE forEachBidResponse(records, i + 1,
                  IF v.ret THEN Append(bidResponses, Pushed(records[i]))
                           ELSE bidResponses)

\* spec.interpretResponse(serverResponse), body being serverResponse.body.
interpretResponse(body) ==
  IF Truthy(body) /\ Len(body.items) > 0
    THEN forEachBidResponse(body.items, 1, <<>>)
    ELSE Returned(<<>>)

InitInterpret == Idle /\ input \in Bodies /\ output = Null

ApplyInterpretResponse ==
  /\ output = Null
  /\ input \in Bodies
  /\ output' = interpretResponse(input)
  /\ UNCHANGED <<now, store, last, hist, faulty, input>>

SpecInterpret == InitInterpret /\ [][ApplyInterpretResponse]_vars

\* A record passes validation, as the claim reads it: a banner with every
\* required key, or a native with every base key and a native object that has
\* impressionTrackers; anything else fails (a native record with no native
\* object included).
PassesValidation(r) ==
  \/ r.mediaType = BANNER /\ BaseKeys \cup BannerKeys \subseteq r.keys
  \/ /\ r.mediaType = NATIVE
     /\ BaseKeys \subseteq r.keys
     /\ r.native # Undefined
     /\ "impressionTrackers" \in DOMAIN r.native

RECURSIVE Passing(_)
Passing(records) ==
  IF records = <<>> THEN <<>>
  ELSE (IF PassesValidation(Head(records)) THEN <<Pushed(Head(records))>> ELSE <<>>)
         \o Passing(Tail(records))

\* C5 as stated: the result is exactly the records that pass validation, in
\* their order; a failing record is dropped without a throw and without keeping
\* any other record from being returned.
C5_AsStated ==
  (Done /\ input # Undefined) =>
    /\ ~output.threw
    /\ output.ret = Passing(input.items)

(***************************************************************************)
(* createUserSyncGetter / getUserSyncs                                     *)
(***************************************************************************)
\* A string is a sequence of pieces; a piece is a literal or the
\* encodeURIComponent of a text.
Lit(s) == [lit |-> s]
encodeURIComponent(s) == [enc |-> s]
\* arr.join(','): the items with commas between them.
RECURSIVE join(_)
join(arr) ==
  IF arr = <<>> THEN <<>>
  ELSE IF Len(arr) = 1 THEN <<Head(arr)>>
  ELSE <<Head(arr), ",">> \o join(Tail(arr))

\* responses.filter(resp => deepAccess(resp, 'body.cid')).map(resp => resp.body.cid)
RECURSIVE cidsOf(_)
cidsOf(responses) ==
  IF responses = <<>> THEN <<>>
  ELSE (IF Head(responses) # "" THEN <<Head(responses)>> ELSE <<>>)
         \o cidsOf(Tail(responses))

\* arr.filter(uniques): the items whose first index is their own.
RECURSIVE uniquesFrom(_, _)
uniquesFrom(arr, i) ==
  IF i > Len(arr) THEN <<>>
  ELSE (IF \A j \in 1..(i - 1) : arr[j] # arr[i] THEN <<arr[i]>> ELSE <<>>)
         \o uniquesFrom(arr, i + 1)

\* The inputs: the configured URLs ('' when not configured), the sync options,
\* the body.cid of each response ('' when it has none), and the consents.
SyncInputs ==
  {[iframeSyncUrl |-> iu, imageSyncUrl |-> pu, iframeEnabled |-> ie,
    pixelEnabled |-> pe, responses |-> rs, gdprApplies |-> ga,
    consentString |-> cs, uspConsent |-> us, gppString |-> gs,
    applicableSections |-> as] :
     iu \in {"", "https://sync.iframe"}, pu \in {"", "https://sync.image"},
     ie \in BOOLEAN, pe \in BOOLEAN,
     rs \in SeqsUpTo({"", "c1", "c2"}, MaxResponses),
     ga \in BOOLEAN, cs \in {"", "CS"}, us \in {"", "1YNN"},
     gs \in {"", "GPP"},
     as \in {Undefined, Array(<<>>), Array(<<"7">>), Array(<<"7", "8">>)}}

\* The query string of line 163 and the GPP part of lines 165-168.
syncParams(in) ==
  LET cidArr == uniquesFrom(cidsOf(in.responses), 1)
      params == <<Lit("?cid="), encodeURIComponent(join(cidArr)),
                  Lit("&gdpr="), Lit(IF in.gdprApplies THEN "1" ELSE "0"),
                  Lit("&gdpr_consent="), encodeURIComponent(<<in.consentString>>),
                  Lit("&us_privacy="), encodeURIComponent(<<in.uspConsent>>)>>
  IN  IF in.gppString # "" /\ in.applicableSections # Undefined
         /\ Len(in.applicableSections.items) > 0
      THEN params \o <<Lit("&gpp="), encodeURIComponent(<<in.gppString>>),
                       Lit("&gpp_sid="),
                       encodeURIComponent(join(in.applicableSections.items))>>
      ELSE params

\* getUserSyncs with the GPP part added whenever a GPP string is present.
getUserSyncs_GppAlways(in) ==
  LET cidArr == uniquesFrom(cidsOf(in.responses), 1)
      base == <<Lit("?cid="), encodeURIComponent(join(cidArr)),
                Lit("&gdpr="), Lit(IF in.gdprApplies THEN "1" ELSE "0"),
                Lit("&gdpr_consent="), encodeURIComponent(<<in.consentString>>),
                Lit("&us_privacy="), encodeURIComponent(<<in.uspConsent>>)>>
      sids == IF in.applicableSections = Undefined THEN <<>>
              ELSE in.applicableSections.items
      params == IF in.gppString # ""
                THEN base \o <<Lit("&gpp="), encodeURIComponent(<<in.gppString>>),
                               Lit("&gpp_sid="), encodeURIComponent(join(sids))>>
                ELSE base
  IN  [threw |-> FALSE,
       ret |-> (IF in.iframeEnabled /\ in.iframeSyncUrl # ""
                THEN <<[type |-> "iframe",
                        url |-> <<Lit(in.iframeSyncUrl), Lit("/")>> \o params]>>
                ELSE <<>>)
               \o (IF in.pixelEnabled /\ in.imageSyncUrl # ""
                   THEN <<[type |-> "image",
                           url |-> <<Lit(in.imageSyncUrl), Lit("/")>> \o params]>>
                   ELSE <<>>)]

\* getUserSyncs(syncOptions, responses, gdprConsent, uspConsent, gppConsent)
getUserSyncs(in) ==
  LET params == syncParams(in)
      iframe == IF in.iframeEnabled /\ in.iframeSyncUrl # ""
                THEN <<[type |-> "iframe",
                        url |-> <<Lit(in.iframeSyncUrl), Lit("/")>> \o params]>>
                ELSE <<>>
      image == IF in.pixelEnabled /\ in.imageSyncUrl # ""
               THEN <<[type |-> "image",
                       url |-> <<Lit(in.imageSyncUrl), Lit("/")>> \o params]>>
               ELSE <<>>
  IN  Returned(iframe \o image)

InitSync == Idle /\ input \in SyncInputs /\ output = Null

ApplyGetUserSyncs ==
  /\ output = Null
  /\ input \in SyncInputs
  /\ output' = getUserSyncs(input)
  /\ UNCHANGED <<now, store, last, hist, faulty, input>>

SpecSync == InitSync /\ [][ApplyGetUserSyncs]_vars

\* Reading a returned URL: the pieces after "<base>/", and the value that
\* follows the literal of a parameter.
Query(url) == SubSeq(url, 3, Len(url))
HasParam(url, name) == \E i \in 1..Len(url) : url[i] = Lit(name)
ParamValue(url, name) ==
  url[(CHOOSE i \in 1..(Len(url) - 1) : url[i] = Lit(name)) + 1]
Types(syncs) == [i \in 1..Len(syncs) |-> syncs[i].type]
\* The campaign ids of the responses, and a comma-joined list read back.
CidSet == {input.responses[i] : i \in 1..Len(input.responses)} \ {""}
ItemsOf(joined) == {joined[i] : i \in 1..Len(joined)} \ {","}
CountOf(joined, x) == Cardinality({i \in 1..Len(joined) : joined[i] = x})
WantIframe == input.iframeEnabled /\ input.iframeSyncUrl # ""
WantImage == input.pixelEnabled /\ input.imageSyncUrl # ""
WantGpp ==
  /\ input.gppString # ""
  /\ input.applicableSections # Undefined
  /\ Len(input.applicableSections.items) >= 1

\* C8: an iframe descriptor iff iframeEnabled and an iframe URL is configured, an
\* image descriptor iff pixelEnabled and an image URL is configured, iframe
\* first; every URL is its base URL, "/", and the same query string carrying the
\* deduplicated campaign ids, the GDPR flag and consent string and the
\* US-privacy string; gpp and gpp_sid appear iff a GPP string is present and the
\* section list has at least one entry.
C8_UserSyncs ==
  Done =>
    LET syncs == output.ret
    IN  /\ ~output.threw
        /\ Types(syncs) = (IF WantIframe THEN <<"iframe">> ELSE <<>>)
                            \o (IF WantImage THEN <<"image">> ELSE <<>>)
        /\ \A i \in 1..Len(syncs) :
             LET url == syncs[i].url
                 cids == ParamValue(url, "?cid=").enc
             IN  /\ url[1] = Lit(IF syncs[i].type = "iframe" THEN input.iframeSyncUrl
                                                              ELSE input.imageSyncUrl)
                 /\ url[2] = Lit("/")
                 /\ Query(url) = Query(syncs[1].url)
                 /\ ItemsOf(cids) = CidSet
                 /\ \A c \in CidSet : CountOf(cids, c) = 1
                 /\ ParamValue(url, "&gdpr=") = Lit(IF input.gdprApplies THEN "1" ELSE "0")
                 /\ ParamValue(url, "&gdpr_consent=") = encodeURIComponent(<<input.consentString>>)
                 /\ ParamValue(url, "&us_privacy=") = encodeURIComponent(<<input.uspConsent>>)
                 /\ HasParam(url, "&gpp=") <=> WantGpp
                 /\ HasParam(url, "&gpp_sid=") <=> WantGpp
                 /\ WantGpp =>
                      /\ ParamValue(url, "&gpp=") = encodeURIComponent(<<input.gppString>>)
                      /\ ItemsOf(ParamValue(url, "&gpp_sid=").enc)
                           = {input.applicableSections.items[j] :
                                j \in 1..Len(input.applicableSections.items)}

\* C8 witness: both descriptors returned, two responses with the same campaign
\* id, a GPP string with an empty section list, so no gpp parameter.
C8_Witness ==
  /\ Done
  /\ Len(output.ret) = 2
  /\ input.responses = <<"c1", "c1">>
  /\ input.gppString # ""
  /\ input.applicableSections = Array(<<>>)
  /\ ~HasParam(output.ret[2].url, "&gpp=")

====
